---- MODULE Spec2Model ----
(***************************************************************************)
(* Model of calculator.py: an interactive four-function calculator.        *)
(*                                                                         *)
(* Text is a sequence of one-character strings.  The two CJK exit/negative *)
(* words are spelled with their code points: "U9000" "U51FA" is the word   *)
(* of calculator.py line 27, "U5426" the word of line 135.                 *)
(*                                                                         *)
(* A float is modelled exactly as  n/d * 10^e  (n, d coprime, d coprime to *)
(* 10, n not a multiple of 10), or as inf, -inf, nan.  Binary rounding is  *)
(* not modelled: where the program computes 1.0 / 1e-09 as                 *)
(* 999999999.9999999 the model has 1000000000.  Of the signed zeros only   *)
(* the -0.0 that round() makes of a small negative number is modelled.     *)
(***************************************************************************)
EXTENDS Integers, Sequences, FiniteSets, TLC

(***************************************************************************)
(* Bounds of the exploration.                                              *)
(***************************************************************************)
\* invalid lines the user may type in one call of a reader
MaxRetry == 2
\* largest difference of decimal exponents of two addends that is explored
MaxExpGap == 6

(***************************************************************************)
(* Text: str.strip() and str.lower().                                      *)
(***************************************************************************)
Whitespace == {" ", "\t"}

UpperLetters == <<"A","B","C","D","E","F","G","H","I","J","K","L","M",
                  "N","O","P","Q","R","S","T","U","V","W","X","Y","Z">>

LowerLetters == <<"a","b","c","d","e","f","g","h","i","j","k","l","m",
                  "n","o","p","q","r","s","t","u","v","w","x","y","z">>

LowerChar(c) ==
  IF \E i \in 1..26 : UpperLetters[i] = c
  THEN LowerLetters[CHOOSE i \in 1..26 : UpperLetters[i] = c]
  ELSE c

\* str.lower()
Lower(s) == [i \in 1..Len(s) |-> LowerChar(s[i])]

RECURSIVE LStrip(_)
LStrip(s) ==
  IF s # <<>> /\ s[1] \in Whitespace THEN LStrip(Tail(s)) ELSE s

RECURSIVE RStrip(_)
RStrip(s) ==
  IF s # <<>> /\ s[Len(s)] \in Whitespace
  THEN RStrip(SubSeq(s, 1, Len(s) - 1))
  ELSE s

\* str.strip()
Strip(s) == RStrip(LStrip(s))

(***************************************************************************)
(* Values: floats, the missing value None and the error text of line 89.   *)
(***************************************************************************)
Fin(n, d, e) == [k |-> "fin", n |-> n, d |-> d, e |-> e]

Inf(sign) == [k |-> "inf", n |-> sign, d |-> 1, e |-> 0]

NaN == [k |-> "nan", n |-> 0, d |-> 1, e |-> 0]

\* the float -0.0
NegZero == [k |-> "negzero", n |-> 0, d |-> 1, e |-> 0]

None == [k |-> "None", n |-> 0, d |-> 1, e |-> 0]

\* the text returned by calculate for a near-zero divisor
DivErr == [k |-> "str", n |-> 0, d |-> 1, e |-> 0]

IsFloat(v) == v.k \in {"fin", "inf", "nan", "negzero"}

Abs(n) == IF n < 0 THEN -n ELSE n

Sgn(n) == IF n < 0 THEN -1 ELSE IF n = 0 THEN 0 ELSE 1

RECURSIVE Pow10(_)
Pow10(k) == IF k = 0 THEN 1 ELSE 10 * Pow10(k - 1)

RECURSIVE GCD(_, _)
GCD(a, b) == IF b = 0 THEN a ELSE GCD(b, a % b)

RECURSIVE Canon(_, _, _)
Canon(n, d, e) ==
  IF d % 2 = 0 THEN Canon(n * 5, d \div 2, e - 1)
  ELSE IF d % 5 = 0 THEN Canon(n * 2, d \div 5, e - 1)
  ELSE IF n % 10 = 0 THEN Canon(n \div 10, d, e + 1)
  ELSE Fin(n, d, e)

\* the canonical form of n/d * 10^e, d > 0
Norm(n, d, e) ==
  IF n = 0 THEN Fin(0, 1, 0)
  ELSE LET g == GCD(Abs(n), d)
           c == Canon(Abs(n) \div g, d \div g, e)
       IN  Fin(Sgn(n) * c.n, c.d, c.e)

Neg(v) ==
  IF v.k = "fin" THEN Fin(-v.n, v.d, v.e)
  ELSE IF v.k = "inf" THEN Inf(-v.n)
  ELSE v

\* abs(v) < t for a float v and a finite positive t
AbsLess(v, t) ==
  IF v.k # "fin" THEN FALSE
  ELSE LET A == Abs(v.n) * t.d
           B == t.n * v.d
           g == v.e - t.e
       IN  IF A = 0 THEN TRUE
           ELSE IF g >= 0
                THEN g <= 9 /\ A <= (B - 1) \div Pow10(g)
                ELSE (-g) > 9 \/ (A \div Pow10(-g)) < B

\* float + float
FAdd(a, b) ==
  IF a.k = "nan" \/ b.k = "nan" THEN NaN
  ELSE IF a.k = "inf" /\ b.k = "inf" THEN (IF a.n = b.n THEN a ELSE NaN)
  ELSE IF a.k = "inf" THEN a
  ELSE IF b.k = "inf" THEN b
  ELSE IF a.n = 0 THEN b
  ELSE IF b.n = 0 THEN a
  ELSE LET m == IF a.e < b.e THEN a.e ELSE b.e
       IN  Norm(a.n * b.d * Pow10(a.e - m) + b.n * a.d * Pow10(b.e - m),
                a.d * b.d, m)

\* float - float
FSub(a, b) == FAdd(a, Neg(b))

\* float * float
FMul(a, b) ==
  IF a.k = "nan" \/ b.k = "nan" THEN NaN
  ELSE IF a.k = "inf" \/ b.k = "inf"
       THEN (IF a.n = 0 \/ b.n = 0 THEN NaN ELSE Inf(Sgn(a.n) * Sgn(b.n)))
  ELSE Norm(a.n * b.n, a.d * b.d, a.e + b.e)

\* float / float, for a divisor that is not zero
FDiv(a, b) ==
  IF a.k = "nan" \/ b.k = "nan" THEN NaN
  ELSE IF a.k = "inf"
       THEN (IF b.k = "inf" THEN NaN ELSE Inf(Sgn(a.n) * Sgn(b.n)))
  ELSE IF b.k = "inf" THEN Fin(0, 1, 0)
  ELSE Norm(Sgn(b.n) * a.n * b.d, a.d * Abs(b.n), a.e - b.e)

(***************************************************************************)
(* float(str): the numerals Python accepts, after the caller's strip().    *)
(***************************************************************************)
Digits == {"0", "1", "2", "3", "4", "5", "6", "7", "8", "9"}

DigitSeq == <<"0", "1", "2", "3", "4", "5", "6", "7", "8", "9">>

DigitVal(c) == (CHOOSE i \in 1..10 : DigitSeq[i] = c) - 1

\* first position of a character of cs in s, 0 when there is none
IndexOf(s, cs) ==
  IF \E i \in 1..Len(s) : s[i] \in cs
  THEN CHOOSE i \in 1..Len(s) : s[i] \in cs /\ \A j \in 1..(i - 1) : s[j] \notin cs
  ELSE 0

\* digits, with single underscores allowed between digits
IsDigitGroup(s) ==
  /\ Len(s) > 0
  /\ s[1] \in Digits
  /\ s[Len(s)] \in Digits
  /\ \A i \in 1..Len(s) : s[i] \in Digits \cup {"_"}
  /\ \A i \in 1..(Len(s) - 1) : ~(s[i] = "_" /\ s[i + 1] = "_")

IsDigit(c) == c \in Digits

DigitsOf(s) == SelectSeq(s, IsDigit)

RECURSIVE ToNat(_)
ToNat(ds) ==
  IF ds = <<>> THEN 0
  ELSE 10 * ToNat(SubSeq(ds, 1, Len(ds) - 1)) + DigitVal(ds[Len(ds)])

HasSign(s) == s # <<>> /\ s[1] \in {"+", "-"}

Unsigned(s) == IF HasSign(s) THEN Tail(s) ELSE s

SignOf(s) == IF s # <<>> /\ s[1] = "-" THEN -1 ELSE 1

SpecialWords == {<<"i","n","f">>, <<"i","n","f","i","n","i","t","y">>, <<"n","a","n">>}

\* the marker of a raised ValueError
ValueError == [k |-> "ValueError", n |-> 0, d |-> 1, e |-> 0]

ParseDecimal(sign, body) ==
  LET ePos == IndexOf(body, {"e", "E"})
      mant == IF ePos = 0 THEN body ELSE SubSeq(body, 1, ePos - 1)
      expo == IF ePos = 0 THEN <<>> ELSE SubSeq(body, ePos + 1, Len(body))
      dot  == IndexOf(mant, {"."})
      intp == IF dot = 0 THEN mant ELSE SubSeq(mant, 1, dot - 1)
      frac == IF dot = 0 THEN <<>> ELSE SubSeq(mant, dot + 1, Len(mant))
      okE  == ePos = 0 \/ IsDigitGroup(Unsigned(expo))
      okM  == IF dot = 0 THEN IsDigitGroup(mant)
              ELSE /\ intp = <<>> \/ IsDigitGroup(intp)
                   /\ frac = <<>> \/ IsDigitGroup(frac)
                   /\ ~(intp = <<>> /\ frac = <<>>)
      fd   == DigitsOf(frac)
      M    == ToNat(DigitsOf(intp) \o fd)
      E    == SignOf(expo) * ToNat(DigitsOf(expo)) - Len(fd)
  IN  IF okE /\ okM THEN Norm(sign * M, 1, E) ELSE ValueError

\* float(s)
PyFloat(s) ==
  LET body == Unsigned(s)
      sign == SignOf(s)
  IN  IF Lower(body) = <<"n","a","n">> THEN NaN
      ELSE IF Lower(body) \in SpecialWords THEN Inf(sign)
      ELSE ParseDecimal(sign, body)

(***************************************************************************)
(* What the user can type, and the ways a read can fail.                   *)
(***************************************************************************)
Typed(s) == [t |-> "line", s |-> s]

KeyboardInterrupt == [t |-> "KeyboardInterrupt", s |-> <<>>]

EOFError == [t |-> "EOFError", s |-> <<>>]

\* input() cannot decode the bytes it read; a subclass of ValueError
UnicodeDecodeError == [t |-> "UnicodeDecodeError", s |-> <<>>]

\* the failures of input() other than the interrupt
ReadFailures == {EOFError, UnicodeDecodeError}

NoEvent == [t |-> "none", s |-> <<>>]

\* lines offered at every prompt of a session
SessionLines ==
  { <<"3">>, <<"4">>, <<"0">>, <<"1","e","-","1","0">>,
    <<"+">>, <<"*">>, <<"/">>, <<" ","-"," ">>,
    <<"q">>, <<" ","Q","u","i","t"," ">>,
    <<"n">>, <<" ","N","O"," ">>, <<"U5426">>, <<"y">>,
    <<"a","b","c">>, <<>> }

SessionEvents == {Typed(s) : s \in SessionLines} \cup {KeyboardInterrupt} \cup ReadFailures

ExitLines ==
  { <<"q">>, <<"Q">>, <<" ","Q","u","i","t"," ">>, <<"e","x","i","t">>,
    <<"E","X","I","T">>, <<"U9000","U51FA">>, <<"\t","U9000","U51FA">> }

NumeralLines ==
  { <<"1">>, <<"3">>, <<"4">>, <<"0">>, <<"-","2">>, <<"2",".","5">>, <<" ","5","\t">>,
    <<"1","e","-","9">>, <<"1","e","-","1","0">>, <<"-","1","e","-","1","0">>,
    <<"1","E","3">>, <<".","5">>, <<"1","_","0">>, <<"+","7",".">>,
    <<"i","n","f">>, <<"-","I","n","f","i","n","i","t","y">>, <<"N","a","N">> }

JunkLines ==
  { <<"a","b","c">>, <<>>, <<" ">>, <<"1",".","2",".","3">>, <<"1","_","_","0">>,
    <<"_","1">>, <<"e","3">>, <<"1","e">>, <<".">>, <<"%">>, <<"n">>,
    <<"+","+">>, <<"5"," ","0">>, <<"q","q">>, <<"+"," ","+">> }

OperatorLines ==
  { <<"+">>, <<"-">>, <<"*">>, <<"/">>, <<" ","+"," ">>, <<"\t","/">> }

\* lines offered to a reader that is run on its own
ReaderLines == ExitLines \cup NumeralLines \cup JunkLines \cup OperatorLines

ReaderEvents == {Typed(s) : s \in ReaderLines} \cup {KeyboardInterrupt} \cup ReadFailures

(***************************************************************************)
(* What the program writes.                                                *)
(***************************************************************************)
NoneOp == <<"None">>

RECURSIVE NatText(_)
\* the decimal digits of a natural number
NatText(n) ==
  IF n < 10 THEN <<DigitSeq[n + 1]>>
  ELSE NatText(n \div 10) \o <<DigitSeq[(n % 10) + 1]>>

RECURSIVE Zeros(_)
Zeros(k) == IF k <= 0 THEN <<>> ELSE <<"0">> \o Zeros(k - 1)

SignText(n) == IF n < 0 THEN <<"-">> ELSE <<>>

\* str() of an int n * 10^e, e >= 0
str_int(v) == SignText(v.n) \o NatText(Abs(v.n)) \o Zeros(IF v.n = 0 THEN 0 ELSE v.e)

\* the text of line 89, as one symbol
DivErrText == <<"DIVISOR_MUST_NOT_BE_ZERO">>

\* str() of a float: repr's shortest digits, fixed notation while the decimal
\* point lies within -4 < decpt <= 16, exponent notation outside
str_float(v) ==
  IF v.k = "nan" THEN <<"n","a","n">>
  ELSE IF v.k = "inf" THEN SignText(v.n) \o <<"i","n","f">>
  ELSE IF v.k = "negzero" THEN <<"-","0",".","0">>
  ELSE IF v.n = 0 THEN <<"0",".","0">>
  ELSE LET ds == NatText(Abs(v.n))
           k == Len(ds)
           decpt == v.e + k
           x == decpt - 1
           xs == NatText(Abs(x))
       IN  SignText(v.n) \o
           (IF decpt <= -4 \/ decpt > 16
            THEN <<ds[1]>> \o (IF k > 1 THEN <<".">> \o Tail(ds) ELSE <<>>)
                 \o <<"e", IF x < 0 THEN "-" ELSE "+">>
                 \o (IF Len(xs) < 2 THEN <<"0">> \o xs ELSE xs)
            ELSE IF decpt <= 0 THEN <<"0",".">> \o Zeros(-decpt) \o ds
            ELSE IF decpt < k
                 THEN SubSeq(ds, 1, decpt) \o <<".">> \o SubSeq(ds, decpt + 1, k)
            ELSE ds \o Zeros(decpt - k) \o <<".","0">>)

\* str() of a value interpolated at line 129
Str(v) ==
  IF v.k = "int" THEN str_int(v)
  ELSE IF v.k = "str" THEN DivErrText
  ELSE IF v.k = "None" THEN <<"N","o","n","e">>
  ELSE str_float(v)

\* the text "{num1} {op} {num2} = {result}" of line 129
ResultText(a, o, b, r) ==
  Str(a) \o <<" ">> \o o \o <<" ">> \o Str(b) \o <<" ","="," ">> \o Str(r)

Msg(tag) ==
  [msg |-> tag, a |-> None, op |-> NoneOp, b |-> None, r |-> None, text |-> <<>>]

ResultLine(a, o, b, r) ==
  [msg |-> "result", a |-> a, op |-> o, b |-> b, r |-> r,
   text |-> ResultText(a, o, b, r)]

Prompts == {"prompt_first", "prompt_operator", "prompt_second", "prompt_continue"}

ErrorTags == {"error_number", "error_operator"}

\* the lines that tell the user the program is ending
Farewells ==
  {"exit_number", "exit_operator", "interrupt_input", "interrupt_continue", "goodbye"}

Tags(out) == {out[i].msg : i \in 1..Len(out)}

Count(out, tags) == Cardinality({i \in 1..Len(out) : out[i].msg \in tags})

(***************************************************************************)
(* The readers: one pass of the while loop for one read.                   *)
(***************************************************************************)
ExitWords == { <<"q">>, <<"q","u","i","t">>, <<"e","x","i","t">>, <<"U9000","U51FA">> }

\* a whitelist that also lets the modulo sign through
valid_operators_mod == { <<"+">>, <<"-">>, <<"*">>, <<"/">>, <<"%">> }

valid_operators == { <<"+">>, <<"-">>, <<"*">>, <<"/">> }

Returned(v, out) == [ret |-> TRUE, raised |-> FALSE, exc |-> "None", val |-> v, out |-> out]

Again(out) == [ret |-> FALSE, raised |-> FALSE, exc |-> "None", val |-> None, out |-> out]

Propagated(e) == [ret |-> FALSE, raised |-> TRUE, exc |-> e, val |-> None, out |-> <<>>]

ReturnedOp(o, out) == [ret |-> TRUE, raised |-> FALSE, exc |-> "None", val |-> o, out |-> out]

AgainOp(out) == [ret |-> FALSE, raised |-> FALSE, exc |-> "None", val |-> NoneOp, out |-> out]

PropagatedOp(e) == [ret |-> FALSE, raised |-> TRUE, exc |-> e, val |-> NoneOp, out |-> <<>>]

\* a number reader that re-prompts without telling the user why
get_valid_number_quiet(ev) ==
  IF ev.t = "KeyboardInterrupt" THEN Returned(None, <<Msg("interrupt_input")>>)
  ELSE IF ev.t = "UnicodeDecodeError" THEN Again(<<Msg("error_number")>>)
  ELSE IF ev.t = "EOFError" THEN Propagated(ev.t)
  ELSE LET user_input == Strip(ev.s)
           number == PyFloat(user_input)
       IN  IF Lower(user_input) \in ExitWords
           THEN Returned(None, <<Msg("exit_number")>>)
           ELSE IF number = ValueError
                THEN Again(<<>>)
                ELSE Returned(number, <<>>)

get_valid_number(ev) ==
  IF ev.t = "KeyboardInterrupt" THEN Returned(None, <<Msg("interrupt_input")>>)
  ELSE IF ev.t = "UnicodeDecodeError" THEN Again(<<Msg("error_number")>>)
  ELSE IF ev.t = "EOFError" THEN Propagated(ev.t)
  ELSE LET user_input == Strip(ev.s)
           number == PyFloat(user_input)
       IN  IF Lower(user_input) \in ExitWords
           THEN Returned(None, <<Msg("exit_number")>>)
           ELSE IF number = ValueError
                THEN Again(<<Msg("error_number")>>)
                ELSE Returned(number, <<>>)

\* an operator reader that swallows the interrupt and asks again
get_valid_operator_retry(ev) ==
  IF ev.t = "KeyboardInterrupt" THEN AgainOp(<<Msg("interrupt_input")>>)
  ELSE IF ev.t \in {"EOFError", "UnicodeDecodeError"} THEN PropagatedOp(ev.t)
  ELSE LET o == Strip(ev.s)
       IN  IF Lower(o) \in ExitWords
           THEN ReturnedOp(NoneOp, <<Msg("exit_operator")>>)
           ELSE IF o \in valid_operators
                THEN ReturnedOp(o, <<>>)
                ELSE AgainOp(<<Msg("error_operator")>>)

get_valid_operator(ev) ==
  IF ev.t = "KeyboardInterrupt" THEN ReturnedOp(NoneOp, <<Msg("interrupt_input")>>)
  ELSE IF ev.t \in {"EOFError", "UnicodeDecodeError"} THEN PropagatedOp(ev.t)
  ELSE LET o == Strip(ev.s)
       IN  IF Lower(o) \in ExitWords
           THEN ReturnedOp(NoneOp, <<Msg("exit_operator")>>)
           ELSE IF o \in valid_operators
                THEN ReturnedOp(o, <<>>)
                ELSE AgainOp(<<Msg("error_operator")>>)

(***************************************************************************)
(* The evaluator and the formatting of its result.                         *)
(***************************************************************************)
\* a threshold one decade too small
ThresholdTenth == Fin(1, 1, -10)

\* the literal 1e-9 of line 88
Threshold == Fin(1, 1, -9)

calculate(a, o, b) ==
  IF o = <<"+">> THEN FAdd(a, b)
  ELSE IF o = <<"-">> THEN FSub(a, b)
  ELSE IF o = <<"*">> THEN FMul(a, b)
  ELSE IF o = <<"/">>
       THEN (IF AbsLess(b, Threshold) THEN DivErr ELSE FDiv(a, b))
  ELSE None

\* float.is_integer()
is_integer(v) == v.k = "fin" /\ v.d = 1 /\ v.e >= 0

\* the nearest integer to n/d (d > 0), ties to even
RoundHalfEven(n, d) ==
  LET q == Abs(n) \div d
      r == Abs(n) % d
      up == 2 * r > d \/ (2 * r = d /\ q % 2 = 1)
  IN  Sgn(n) * (IF up THEN q + 1 ELSE q)

\* round(v, places) of a float that is not an integer
PyRound(v, places) ==
  IF v.k # "fin" THEN v
  ELSE LET s == v.e + places
           q == IF s >= 0 THEN RoundHalfEven(v.n * Pow10(s), v.d)
                ELSE IF -s > 9 THEN 0
                ELSE RoundHalfEven(v.n, v.d * Pow10(-s))
       IN  IF q = 0 /\ v.n < 0 THEN NegZero ELSE Norm(q, 1, -places)

\* a formatting that keeps three decimal places
FormatThreePlaces(r) ==
  IF IsFloat(r)
  THEN (IF is_integer(r) THEN [r EXCEPT !.k = "int"] ELSE PyRound(r, 3))
  ELSE r

\* lines 120-126
Format(r) ==
  IF IsFloat(r)
  THEN (IF is_integer(r) THEN [r EXCEPT !.k = "int"] ELSE PyRound(r, 6))
  ELSE r

\* the sum or difference of a and b is computed without exceeding the bounds
Explored(a, o, b) ==
  \/ o \notin {<<"+">>, <<"-">>}
  \/ a.k # "fin" \/ b.k # "fin"
  \/ a.n = 0 \/ b.n = 0
  \/ Abs(a.e - b.e) <= MaxExpGap

(***************************************************************************)
(* The session.                                                            *)
(***************************************************************************)
VARIABLES pc, num1, op, num2, result, line, printed, reads, errs,
          exc, bye, exitCode, hadError

vars == <<pc, num1, op, num2, result, line, printed, reads, errs,
          exc, bye, exitCode, hadError>>

\* hadError is history: an earlier iteration of this session ended in a
\* division-by-zero report.  The locals num1, operator, num2 and result keep
\* their values from one iteration to the next until they are assigned again.

\* an exit status that reports the caught exception
ExitStatusOnError(e) == IF e = "None" THEN 0 ELSE 1

\* the status passed to sys.exit at line 151
ExitStatus(e) == 0

Fresh ==
  /\ num1 = None
  /\ op = NoneOp
  /\ num2 = None
  /\ result = None
  /\ line = NoEvent
  /\ printed = <<>>
  /\ reads = 0
  /\ errs = 0
  /\ exc = "None"
  /\ bye = FALSE
  /\ exitCode = -1
  /\ hadError = FALSE

Init == pc = "Start" /\ Fresh

\* bookkeeping shared by every step that writes `out` after reading `ev`
Wrote(ev, out) ==
  /\ line' = ev
  /\ printed' = out
  /\ bye' = (bye \/ Tags(out) \cap Farewells # {})

\* a reader's outcome depends on the event alone: the outcomes of the reads of
\* a session, tabulated
NumberOutcome == [ev \in SessionEvents |-> get_valid_number(ev)]

OperatorOutcome == [ev \in SessionEvents |-> get_valid_operator(ev)]

\* lines 96-99
Banner ==
  /\ pc = "Start"
  /\ pc' = "ReadFirstOperand"
  /\ Wrote(NoEvent, <<Msg("banner")>>)
  /\ UNCHANGED <<num1, op, num2, result, reads, errs, exc, exitCode, hadError>>

\* a session that forgets to break on the exit sentinel
PassNoBreak(r, sentinel, next) ==
  /\ pc' = IF r.raised THEN "Raised"
           ELSE IF ~r.ret THEN pc
           ELSE next
  /\ exc' = IF r.raised THEN r.exc ELSE exc
  /\ ~r.ret /\ ~r.raised => reads < MaxRetry
  /\ reads' = IF ~r.ret /\ ~r.raised THEN reads + 1 ELSE reads
  /\ errs' = errs + Count(r.out, ErrorTags)

\* where the session goes after one pass of a reader's loop with outcome r;
\* reads counts the passes of this iteration that asked again, errs the error
\* messages they wrote
Pass(r, sentinel, next) ==
  /\ pc' = IF r.raised THEN "Raised"
           ELSE IF ~r.ret THEN pc
           ELSE IF r.val = sentinel THEN "Terminate"
           ELSE next
  /\ exc' = IF r.raised THEN r.exc ELSE exc
  /\ ~r.ret /\ ~r.raised => reads < MaxRetry
  /\ reads' = IF ~r.ret /\ ~r.raised THEN reads + 1 ELSE reads
  /\ errs' = errs + Count(r.out, ErrorTags)

\* lines 103-105
ReadFirstOperand ==
  /\ pc = "ReadFirstOperand"
  /\ \E ev \in SessionEvents :
       LET r == NumberOutcome[ev]
       IN  /\ Pass(r, None, "ReadOperator")
           /\ num1' = IF r.ret THEN r.val ELSE num1
           /\ Wrote(ev, <<Msg("prompt_first")>> \o r.out)
  /\ UNCHANGED <<op, num2, result, exitCode, hadError>>

\* an operator read that forgets the first operand when it asks again
ReadOperatorClears ==
  /\ pc = "ReadOperator"
  /\ \E ev \in SessionEvents :
       LET r == OperatorOutcome[ev]
       IN  /\ Pass(r, NoneOp, "ReadSecondOperand")
           /\ op' = IF r.ret THEN r.val ELSE op
           /\ num1' = IF r.ret \/ r.raised THEN num1 ELSE None
           /\ Wrote(ev, <<Msg("prompt_operator")>> \o r.out)
  /\ UNCHANGED <<num2, result, exitCode, hadError>>

\* lines 108-110
ReadOperator ==
  /\ pc = "ReadOperator"
  /\ \E ev \in SessionEvents :
       LET r == OperatorOutcome[ev]
       IN  /\ Pass(r, NoneOp, "ReadSecondOperand")
           /\ op' = IF r.ret THEN r.val ELSE op
           /\ Wrote(ev, <<Msg("prompt_operator")>> \o r.out)
  /\ UNCHANGED <<num1, num2, result, exitCode, hadError>>

\* a second read that tests the operand for truth and so takes 0 for the
\* exit sentinel
ReadSecondOperandFalsy ==
  /\ pc = "ReadSecondOperand"
  /\ \E ev \in SessionEvents :
       LET r == NumberOutcome[ev]
           falsy == r.ret /\ r.val = Fin(0, 1, 0)
       IN  /\ r.ret /\ r.val # None => Explored(num1, op, r.val)
           /\ Pass([r EXCEPT !.val = IF falsy THEN None ELSE r.val], None, "Evaluate")
           /\ num2' = IF r.ret THEN r.val ELSE num2
           /\ Wrote(ev, <<Msg("prompt_second")>> \o r.out)
  /\ UNCHANGED <<num1, op, result, exitCode, hadError>>

\* lines 113-115
ReadSecondOperand ==
  /\ pc = "ReadSecondOperand"
  /\ \E ev \in SessionEvents :
       LET r == NumberOutcome[ev]
       IN  /\ r.ret /\ r.val # None => Explored(num1, op, r.val)
           /\ Pass(r, None, "Evaluate")
           /\ num2' = IF r.ret THEN r.val ELSE num2
           /\ Wrote(ev, <<Msg("prompt_second")>> \o r.out)
  /\ UNCHANGED <<num1, op, result, exitCode, hadError>>

\* an evaluation that keeps the error of an earlier iteration
EvaluateSticky ==
  /\ pc = "Evaluate"
  /\ result' = IF result = DivErr THEN result ELSE calculate(num1, op, num2)
  /\ pc' = "Report"
  /\ printed' = <<>>
  /\ UNCHANGED <<num1, op, num2, line, reads, errs, exc, bye, exitCode, hadError>>

\* line 118
Evaluate ==
  /\ pc = "Evaluate"
  /\ result' = calculate(num1, op, num2)
  /\ pc' = "Report"
  /\ printed' = <<>>
  /\ UNCHANGED <<num1, op, num2, line, reads, errs, exc, bye, exitCode, hadError>>

\* a report that ends the session after a division error
ReportStops ==
  /\ pc = "Report"
  /\ result' = Format(result)
  /\ printed' = <<ResultLine(num1, op, num2, result')>>
  /\ pc' = IF result = DivErr THEN "Terminate" ELSE "AskContinue"
  /\ UNCHANGED <<num1, op, num2, line, reads, errs, exc, bye, exitCode, hadError>>

\* lines 120-129
Report ==
  /\ pc = "Report"
  /\ result' = Format(result)
  /\ printed' = <<ResultLine(num1, op, num2, result')>>
  /\ pc' = "AskContinue"
  /\ UNCHANGED <<num1, op, num2, line, reads, errs, exc, bye, exitCode, hadError>>

NoWords == { <<"n">>, <<"n","o">>, <<"U5426">> }

\* a test that continues only on an explicit yes
IsNegativeUnlessYes(continue_choice) == continue_choice \notin {<<"y">>, <<"y","e","s">>}

\* the test of line 135
IsNegative(continue_choice) == continue_choice \in NoWords

\* a continue prompt that is asked again after an empty answer
AskContinueAgain ==
  /\ pc = "AskContinue"
  /\ \E ev \in SessionEvents :
       IF ev \in ReadFailures
       THEN /\ pc' = "Raised"
            /\ exc' = ev.t
            /\ Wrote(ev, <<Msg("prompt_continue")>>)
       ELSE IF ev.t = "KeyboardInterrupt"
       THEN /\ pc' = "Terminate"
            /\ exc' = exc
            /\ Wrote(ev, <<Msg("prompt_continue"), Msg("interrupt_continue")>>)
       ELSE IF IsNegative(Lower(Strip(ev.s)))
       THEN /\ pc' = "Terminate"
            /\ exc' = exc
            /\ Wrote(ev, <<Msg("prompt_continue"), Msg("goodbye")>>)
       ELSE /\ pc' = IF Strip(ev.s) = <<>> THEN "AskContinue" ELSE "ReadFirstOperand"
            /\ exc' = exc
            /\ Wrote(ev, <<Msg("prompt_continue")>>)
  /\ reads' = IF pc' = "ReadFirstOperand" THEN 0 ELSE reads
  /\ errs' = IF pc' = "ReadFirstOperand" THEN 0 ELSE errs
  /\ hadError' = (hadError \/ (pc' = "ReadFirstOperand" /\ result = DivErr))
  /\ UNCHANGED <<num1, op, num2, result, exitCode>>

\* lines 132-140
AskContinue ==
  /\ pc = "AskContinue"
  /\ \E ev \in SessionEvents :
       IF ev \in ReadFailures
       THEN /\ pc' = "Raised"
            /\ exc' = ev.t
            /\ Wrote(ev, <<Msg("prompt_continue")>>)
       ELSE IF ev.t = "KeyboardInterrupt"
       THEN /\ pc' = "Terminate"
            /\ exc' = exc
            /\ Wrote(ev, <<Msg("prompt_continue"), Msg("interrupt_continue")>>)
       ELSE IF IsNegative(Lower(Strip(ev.s)))
       THEN /\ pc' = "Terminate"
            /\ exc' = exc
            /\ Wrote(ev, <<Msg("prompt_continue"), Msg("goodbye")>>)
       ELSE /\ pc' = "ReadFirstOperand"
            /\ exc' = exc
            /\ Wrote(ev, <<Msg("prompt_continue")>>)
  /\ reads' = IF pc' = "ReadFirstOperand" THEN 0 ELSE reads
  /\ errs' = IF pc' = "ReadFirstOperand" THEN 0 ELSE errs
  /\ hadError' = (hadError \/ (pc' = "ReadFirstOperand" /\ result = DivErr))
  /\ UNCHANGED <<num1, op, num2, result, exitCode>>

\* lines 147-148
HandleException ==
  /\ pc = "Raised"
  /\ pc' = "Terminate"
  /\ printed' = <<Msg("unexpected")>>
  /\ UNCHANGED <<num1, op, num2, result, line, reads, errs, exc, bye, exitCode, hadError>>

\* lines 149-151
Finally ==
  /\ pc = "Terminate"
  /\ pc' = "Exited"
  /\ exitCode' = ExitStatus(exc)
  /\ printed' = <<>>
  /\ UNCHANGED <<num1, op, num2, result, line, reads, errs, exc, bye, hadError>>

Next ==
  \/ Banner
  \/ ReadFirstOperand
  \/ ReadOperator
  \/ ReadSecondOperand
  \/ Evaluate
  \/ Report
  \/ AskContinue
  \/ HandleException
  \/ Finally

Spec == Init /\ [][Next]_vars

(***************************************************************************)
(* A reader on its own: get_valid_number or get_valid_operator called once *)
(* and fed lines until it returns.  reads counts the reads that did not    *)
(* return, errs the error messages written.                                *)
(***************************************************************************)
InitReader == pc \in {"InNumberReader", "InOperatorReader"} /\ Fresh

ReaderPass(r) ==
  /\ ~r.ret /\ ~r.raised => reads < MaxRetry
  /\ pc' = IF r.raised THEN "ReaderRaised"
           ELSE IF r.ret THEN "ReaderReturned"
           ELSE pc
  /\ exc' = IF r.raised THEN r.exc ELSE exc
  /\ reads' = IF r.ret \/ r.raised THEN reads ELSE reads + 1
  /\ errs' = errs + Count(r.out, ErrorTags)

\* lines 21-41
NumberReaderPass ==
  /\ pc = "InNumberReader"
  /\ \E ev \in ReaderEvents :
       LET r == get_valid_number(ev)
       IN  /\ ReaderPass(r)
           /\ num1' = IF r.ret THEN r.val ELSE num1
           /\ Wrote(ev, <<Msg("prompt_first")>> \o r.out)
  /\ UNCHANGED <<op, num2, result, exitCode, hadError>>

\* lines 51-70
OperatorReaderPass ==
  /\ pc = "InOperatorReader"
  /\ \E ev \in ReaderEvents :
       LET r == get_valid_operator(ev)
       IN  /\ ReaderPass(r)
           /\ op' = IF r.ret THEN r.val ELSE op
           /\ Wrote(ev, <<Msg("prompt_operator")>> \o r.out)
  /\ UNCHANGED <<num1, num2, result, exitCode, hadError>>

NextReader == NumberReaderPass \/ OperatorReaderPass

ReaderSpec == InitReader /\ [][NextReader]_vars

(***************************************************************************)
(* The evaluator on its own: calculate applied to every pair of operands   *)
(* that a number reader can return, then formatted and printed.            *)
(***************************************************************************)
Operands == {PyFloat(Strip(s)) : s \in NumeralLines}

InitCalc ==
  /\ pc = "Evaluate"
  /\ num1 \in Operands
  /\ op \in valid_operators
  /\ num2 \in Operands
  /\ Explored(num1, op, num2)
  /\ result = None
  /\ line = NoEvent
  /\ printed = <<>>
  /\ reads = 0
  /\ errs = 0
  /\ exc = "None"
  /\ bye = FALSE
  /\ exitCode = -1
  /\ hadError = FALSE

NextCalc == Evaluate \/ Report

CalcSpec == InitCalc /\ [][NextCalc]_vars

TypeOK ==
  /\ pc \in {"Start", "ReadFirstOperand", "ReadOperator", "ReadSecondOperand",
             "Evaluate", "Report", "AskContinue", "Raised", "Terminate", "Exited",
             "InNumberReader", "InOperatorReader", "ReaderRaised", "ReaderReturned"}
  /\ reads \in 0..MaxRetry
  /\ errs \in 0..MaxRetry
  /\ exitCode \in {-1, 0}
  /\ hadError \in BOOLEAN
  /\ num1.k \in {"None", "fin", "inf", "nan"}

(***************************************************************************)
(* Properties of the session (checked under Spec).                         *)
(***************************************************************************)
ReaderPcs == {"ReadFirstOperand", "ReadOperator", "ReadSecondOperand"}

PromptPcs == ReaderPcs \cup {"AskContinue"}

ReaderExitTags == {"exit_number", "exit_operator", "interrupt_input"}

\* the lines of SessionLines that are exit keywords once trimmed and lower-cased
SessionExitLines == { <<"q">>, <<" ","Q","u","i","t"," ">> }

\* the lines of SessionLines that are negative answers once trimmed and lower-cased
SessionNegativeLines == { <<"n">>, <<" ","N","O"," ">>, <<"U5426">> }

\* this step is a reader handing its exit sentinel back to the session
SentinelReturned ==
  /\ pc \in ReaderPcs
  /\ Tags(printed') \cap ReaderExitTags # {}

\* nothing is prompted, evaluated or reported once the loop has been left
QuietAfterTerminate ==
  pc \in {"Terminate", "Exited"} =>
    /\ pc' = "Exited"
    /\ printed' = <<>>
    /\ UNCHANGED <<num1, op, num2, result>>

\* C1: a reader that returns its exit sentinel sends the session straight to
\* Terminate: the variable it fills is None, the exit message is the last line
\* written, and from Terminate on no prompt, evaluation or result line follows.
C1_SentinelTerminates ==
  [][ /\ SentinelReturned =>
           /\ pc' = "Terminate"
           /\ Count(printed', Prompts) = 1
           /\ printed'[Len(printed')].msg \in ReaderExitTags
           /\ pc = "ReadFirstOperand" => num1' = None
           /\ pc = "ReadOperator" => op' = NoneOp
           /\ pc = "ReadSecondOperand" => num2' = None
           /\ result' = result
      /\ QuietAfterTerminate ]_vars

\* q at the first-number prompt of the first iteration: the process has exited
\* and neither an operator nor a second number was ever read
C1_Witness ==
  /\ pc = "Exited"
  /\ line = Typed(<<"q">>)
  /\ num1 = None
  /\ op = NoneOp
  /\ num2 = None
  /\ result = None

\* C2: whenever the process has exited, its exit status is 0, whichever way
\* the session ended (exit keyword, negative answer, interrupt, caught error).
C2_ExitCodeZero ==
  /\ pc = "Exited" => exitCode = 0
  /\ pc # "Exited" => exitCode = -1

\* the process has exited after an exception reached the top level
C2_Witness ==
  /\ pc = "Exited"
  /\ exc \in {"EOFError", "UnicodeDecodeError"}
  /\ exitCode = 0

\* C3: an exit keyword typed at any of the four prompts (first number,
\* operator, second number, continue) terminates the session.
C3_ExitKeywordAtEveryPrompt ==
  [][ (pc \in PromptPcs /\ line'.t = "line" /\ line'.s \in SessionExitLines)
        => pc' = "Terminate" ]_vars

(***************************************************************************)
(* Properties of the readers (checked under ReaderSpec).                   *)
(***************************************************************************)
\* what Python's float() returns for the trimmed lines of NumeralLines
NumeralTable ==
  { [s |-> <<"1">>, v |-> Fin(1, 1, 0)],
    [s |-> <<"3">>, v |-> Fin(3, 1, 0)],
    [s |-> <<"4">>, v |-> Fin(4, 1, 0)],
    [s |-> <<"0">>, v |-> Fin(0, 1, 0)],
    [s |-> <<"-","2">>, v |-> Fin(-2, 1, 0)],
    [s |-> <<"2",".","5">>, v |-> Fin(25, 1, -1)],
    [s |-> <<" ","5","\t">>, v |-> Fin(5, 1, 0)],
    [s |-> <<"1","e","-","9">>, v |-> Fin(1, 1, -9)],
    [s |-> <<"1","e","-","1","0">>, v |-> Fin(1, 1, -10)],
    [s |-> <<"-","1","e","-","1","0">>, v |-> Fin(-1, 1, -10)],
    [s |-> <<"1","E","3">>, v |-> Fin(1, 1, 3)],
    [s |-> <<".","5">>, v |-> Fin(5, 1, -1)],
    [s |-> <<"1","_","0">>, v |-> Fin(1, 1, 1)],
    [s |-> <<"+","7",".">>, v |-> Fin(7, 1, 0)],
    [s |-> <<"i","n","f">>, v |-> Inf(1)],
    [s |-> <<"-","I","n","f","i","n","i","t","y">>, v |-> Inf(-1)],
    [s |-> <<"N","a","N">>, v |-> NaN] }

\* the lines of ReaderLines that float() accepts once trimmed
AcceptedLines == {p.s : p \in NumeralTable}

ExpectedNumber(s) == (CHOOSE p \in NumeralTable : p.s = s).v

\* a numeral in the narrow sense: optional sign, digits with an optional
\* decimal point, optional exponent
IsPlainNumeral(s) ==
  LET body == Unsigned(s)
      ePos == IndexOf(body, {"e", "E"})
      mant == IF ePos = 0 THEN body ELSE SubSeq(body, 1, ePos - 1)
      expo == IF ePos = 0 THEN <<>> ELSE Unsigned(SubSeq(body, ePos + 1, Len(body)))
      dots == {i \in 1..Len(mant) : mant[i] = "."}
  IN  /\ \A i \in 1..Len(mant) : mant[i] \in Digits \cup {"."}
      /\ Cardinality(dots) <= 1
      /\ \E i \in 1..Len(mant) : mant[i] \in Digits
      /\ ePos # 0 => (expo # <<>> /\ \A i \in 1..Len(expo) : expo[i] \in Digits)

InNumberReader == Len(printed) > 0 /\ printed[1].msg = "prompt_first"

InOperatorReader == Len(printed) > 0 /\ printed[1].msg = "prompt_operator"

ReturnedOnLine == pc = "ReaderReturned" /\ line.t = "line" /\ line.s \notin ExitLines

\* C4 as stated: the number reader returns a value only for a numeral in the
\* narrow sense (optional sign, optional decimal point, optional exponent);
\* every other line that is not an exit keyword is answered by a re-prompt.
C4_OnlyPlainNumeralsReturn ==
  (InNumberReader /\ ReturnedOnLine) => IsPlainNumeral(Strip(line.s))

\* C4 amended: the number reader returns on a line exactly when float() accepts
\* the trimmed line, and then returns float()'s value; every other line that is
\* not an exit keyword gets exactly one error message and a re-prompt, so a
\* value is returned after as many error messages as there were invalid lines.
C4_NumberReaderRetries ==
  /\ pc = "InNumberReader" => errs = reads
  /\ (pc = "InNumberReader" /\ reads > 0) =>
        /\ line.t \in {"line", "UnicodeDecodeError"}
        /\ line.t = "line" => line.s \notin AcceptedLines \cup ExitLines
        /\ printed = <<Msg("prompt_first"), Msg("error_number")>>
        /\ num1 = None
  /\ (InNumberReader /\ ReturnedOnLine) =>
        /\ line.s \in AcceptedLines
        /\ num1 = ExpectedNumber(line.s)
        /\ errs = reads
        /\ printed = <<Msg("prompt_first")>>

\* two invalid lines, then 2.5: the reader has returned 2.5 after two errors
C4_Witness ==
  /\ InNumberReader
  /\ pc = "ReaderReturned"
  /\ line = Typed(<<"2",".","5">>)
  /\ num1 = Fin(25, 1, -1)
  /\ reads >= 2
  /\ errs = reads

\* C5: the operator reader returns an operator only for a line whose trimmed
\* text is one of + - * / (so " + " is accepted as +); every other line that
\* is not an exit keyword gets an error message and a re-prompt; hence every
\* value it returns other than the sentinel is one of the four operators.
C5_OperatorReaderWhitelist ==
  /\ (pc = "InOperatorReader" /\ reads > 0) =>
        /\ line.t = "line"
        /\ line.s \notin OperatorLines \cup ExitLines
        /\ printed = <<Msg("prompt_operator"), Msg("error_operator")>>
        /\ errs = reads
        /\ op = NoneOp
  /\ (InOperatorReader /\ pc = "ReaderReturned") =>
        /\ op # NoneOp => op \in { <<"+">>, <<"-">>, <<"*">>, <<"/">> }
        /\ op # NoneOp <=> (line.t = "line" /\ line.s \in OperatorLines)
        /\ line = Typed(<<" ","+"," ">>) => op = <<"+">>
        /\ line = Typed(<<"\t","/">>) => op = <<"/">>
        /\ (line.t = "line" /\ Len(line.s) = 1 /\ line.s \in OperatorLines) => op = line.s

\* an invalid line, then " + ": the reader has returned +
C5_Witness ==
  /\ InOperatorReader
  /\ pc = "ReaderReturned"
  /\ line = Typed(<<" ","+"," ">>)
  /\ op = <<"+">>
  /\ reads >= 1

(***************************************************************************)
(* Properties of the evaluator (checked under CalcSpec).                   *)
(***************************************************************************)
\* the operands of the exploration whose magnitude is below 1e-9
NearZero == {Fin(0, 1, 0), Fin(1, 1, -10), Fin(-1, 1, -10)}

\* C6: for / calculate returns the division error exactly when |b| < 1e-9
\* (0 and both signs of 1e-10 included, 1e-9 itself excluded) and a/b
\* otherwise; for + - * it returns the sum, difference and product and never
\* the error value.  a/b, a+b, a-b, a*b are recognised by undoing them.
C6_CalculateContract ==
  pc = "Report" =>
    /\ op = <<"/">> =>
         /\ result = DivErr <=> num2 \in NearZero
         /\ (num2 \notin NearZero /\ num1.k = "fin" /\ num2.k = "fin") =>
               (result.k = "fin" /\ FMul(result, num2) = num1)
         /\ (num2 \notin NearZero /\ (num1.k # "fin" \/ num2.k # "fin")) =>
               result.k \in {"fin", "inf", "nan"}
    /\ op # <<"/">> => IsFloat(result)
    /\ (op = <<"+">> /\ num1.k = "fin" /\ num2.k = "fin") =>
         (result.k = "fin" /\ FSub(result, num2) = num1)
    /\ (op = <<"-">> /\ num1.k = "fin" /\ num2.k = "fin") =>
         (result.k = "fin" /\ FAdd(result, num2) = num1)
    /\ (op = <<"*">> /\ num1.k = "fin" /\ num2.k = "fin") =>
         /\ result.k = "fin"
         /\ num2.n # 0 => FDiv(result, num2) = num1
         /\ num2.n = 0 => result = Fin(0, 1, 0)

\* 3 / -1e-10 has been evaluated to the division error
C6_Witness ==
  /\ pc = "Report"
  /\ num1 = Fin(3, 1, 0)
  /\ op = <<"/">>
  /\ num2 = Fin(-1, 1, -10)
  /\ result = DivErr

(***************************************************************************)
(* Further properties of the session (checked under Spec).                 *)
(***************************************************************************)
\* C7: a division by a near-zero divisor does not end the session: the error
\* text takes the place of the number in the result line, the continue prompt
\* follows as after any evaluation, and an answer that is not negative starts
\* a new iteration at the first-number prompt.
C7_DivisionErrorContinues ==
  [][ /\ (pc = "Evaluate" /\ op = <<"/">> /\ num2 \in NearZero) =>
           (result' = DivErr /\ pc' = "Report")
      /\ (pc = "Report" /\ result = DivErr) =>
           /\ pc' = "AskContinue"
           /\ printed' = <<ResultLine(num1, op, num2, DivErr)>>
      /\ (pc = "AskContinue" /\ result = DivErr) =>
           /\ printed'[1].msg = "prompt_continue"
           /\ (line'.t = "line" /\ line'.s \notin SessionNegativeLines) =>
                 (pc' = "ReadFirstOperand" /\ printed' = <<Msg("prompt_continue")>>)
    ]_vars

\* after 3 / 0 was reported as an error and the user answered y, the session
\* is back at the first-number prompt
C7_Witness ==
  /\ pc = "ReadFirstOperand"
  /\ num1 = Fin(3, 1, 0)
  /\ op = <<"/">>
  /\ num2 = Fin(0, 1, 0)
  /\ result = DivErr
  /\ line = Typed(<<"y">>)

PromptOf(p) ==
  IF p = "ReadFirstOperand" THEN "prompt_first"
  ELSE IF p = "ReadOperator" THEN "prompt_operator"
  ELSE IF p = "ReadSecondOperand" THEN "prompt_second"
  ELSE "prompt_continue"

\* C9: an interrupt during the read of any of the four prompts ends the whole
\* session: the step writes the pending prompt and the interrupt notice and
\* nothing else, goes to Terminate without asking again, and from there the
\* process exits without a prompt, an evaluation or a result line.
C9_InterruptTerminates ==
  [][ /\ (pc \in PromptPcs /\ line' = KeyboardInterrupt) =>
           /\ pc' = "Terminate"
           /\ Len(printed') = 2
           /\ printed'[1] = Msg(PromptOf(pc))
           /\ printed'[2].msg \in {"interrupt_input", "interrupt_continue"}
           /\ result' = result
      /\ pc \in {"Terminate", "Exited"} =>
           (pc' = "Exited" /\ Tags(printed') \cap (Prompts \cup {"result"}) = {})
    ]_vars

\* interrupted at the second-number prompt of the first iteration, then exited
C9_Witness ==
  /\ pc = "Exited"
  /\ line = KeyboardInterrupt
  /\ num1 # None
  /\ op # NoneOp
  /\ num2 = None
  /\ result = None

\* C10: whenever the process has exited, a farewell line was written on the
\* way, also when the session ended with a caught unexpected error.
C10_FarewellAlways == pc = "Exited" => bye

\* C11: a read that fails other than by an interrupt, at any of the four
\* prompts, is not retried: the exception leaves the loop without an error
\* message of a reader, is reported once at the top level, and the process
\* then exits with no further prompt.
C11_FailureReachesTopLevel ==
  [][ /\ (pc \in PromptPcs /\ line' \in ReadFailures) =>
           /\ pc' = "Raised"
           /\ exc' = line'.t
           /\ printed' = <<Msg(PromptOf(pc))>>
      /\ pc = "Raised" =>
           (pc' = "Terminate" /\ printed' = <<Msg("unexpected")>>)
      /\ pc \in {"Terminate", "Exited"} =>
           (pc' = "Exited" /\ exitCode' = 0 /\ printed' = <<>>)
    ]_vars

(***************************************************************************)
(* Properties of the formatting (checked under CalcSpec).                  *)
(***************************************************************************)
\* the value of a displayed float, -0.0 counted as 0
ValueOf(v) == IF v.k = "negzero" THEN Fin(0, 1, 0) ELSE v

\* abs(v) <= t
Within(v, t) == AbsLess(v, t) \/ v = t \/ v = Neg(t)

\* the text after "= " in a result line
ShownResult(l) ==
  LET i == CHOOSE j \in 1..Len(l.text) : l.text[j] = "=" /\ l.text[j - 1] = " "
  IN  SubSeq(l.text, i + 2, Len(l.text))

Contains(text, sub) ==
  \E i \in 0..(Len(text) - Len(sub)) : SubSeq(text, i + 1, i + Len(sub)) = sub

\* C13: for the inputs 3, +, 4 the result line contains "3 + 4 = 7", the
\* operands echoed as entered without a fractional part, and the answer n then
\* ends the session with exit code 0.
C13_EchoAsEntered ==
  /\ (pc = "AskContinue" /\ num1 = Fin(3, 1, 0) /\ op = <<"+">> /\ num2 = Fin(4, 1, 0)) =>
        Contains(printed[1].text, <<"3"," ","+"," ","4"," ","="," ","7">>)
  /\ pc = "Exited" => exitCode = 0

(***************************************************************************)
(* Properties of the recovery from invalid input (checked under Spec).     *)
(***************************************************************************)
\* the lines of SessionLines that float() accepts once trimmed
SessionNumeralLines == { <<"3">>, <<"4">>, <<"0">>, <<"1","e","-","1","0">> }

\* the lines of SessionLines that are operators once trimmed
SessionOperatorLines == { <<"+">>, <<"*">>, <<"/">>, <<" ","-"," ">> }

\* l is a line that the reader of prompt p neither returns nor exits on
Malformed(p, l) ==
  /\ l.t = "line"
  /\ l.s \in SessionLines \ SessionExitLines
  /\ l.s \notin (IF p = "ReadOperator" THEN SessionOperatorLines ELSE SessionNumeralLines)

ErrorOf(p) == IF p = "ReadOperator" THEN "error_operator" ELSE "error_number"

\* C14: a malformed numeral or an invalid operator token writes one error
\* message and asks for the same field again, the iteration is not restarted
\* and the operands, the operator and the result are left as they were; by the
\* time a result line is printed every error message of the iteration belongs
\* to one retried read, and the result is that of the values finally read (abc,
\* 3, abc, *, 4 gives two error messages and then 3 * 4 = 12).
C14_InvalidInputRecoveredLocally ==
  /\ [][ (pc \in ReaderPcs /\ Malformed(pc, line')) =>
            /\ pc' = pc
            /\ UNCHANGED <<num1, op, num2, result>>
            /\ printed' = <<Msg(PromptOf(pc)), Msg(ErrorOf(pc))>>
            /\ errs' = errs + 1
            /\ reads' = reads + 1
       ]_vars
  /\ [][ (pc \in ReaderPcs /\ ~Malformed(pc, line') /\ line'.t # "UnicodeDecodeError") =>
            /\ Tags(printed') \cap ErrorTags = {}
            /\ errs' = errs
       ]_vars
  /\ [](errs = reads)
  /\ []((pc = "AskContinue" /\ num1 = Fin(3, 1, 0) /\ op = <<"*">> /\ num2 = Fin(4, 1, 0)) =>
          /\ result = [k |-> "int", n |-> 12, d |-> 1, e |-> 0]
          /\ ShownResult(printed[1]) = <<"1","2">>)

\* abc, 3, abc, *, 4: two error messages, then the result of 3 * 4
C14_Witness ==
  /\ pc = "AskContinue"
  /\ errs = 2
  /\ reads = 2
  /\ num1 = Fin(3, 1, 0)
  /\ op = <<"*">>
  /\ num2 = Fin(4, 1, 0)
  /\ ShownResult(printed[1]) = <<"1","2">>

(***************************************************************************)
(* Properties of the iterations (checked under Spec).                      *)
(***************************************************************************)
\* the operator on a line of SessionOperatorLines
SessionOperatorOf(s) == IF s = <<" ","-"," ">> THEN <<"-">> ELSE s

\* C15: the result line of an iteration is a function of the three values read
\* in that iteration alone: each successful read overwrites its field with the
\* value of the line just typed, the evaluation overwrites the result with
\* calculate of the three fields, and the line printed is the one that these
\* three values determine, whatever the earlier iterations left behind and
\* also after an iteration that ended in a division-by-zero report.
C15_IterationsIndependent ==
  /\ [][ /\ (pc = "ReadFirstOperand" /\ pc' = "ReadOperator") =>
              num1' = ExpectedNumber(line'.s)
         /\ (pc = "ReadOperator" /\ pc' = "ReadSecondOperand") =>
              (op' = SessionOperatorOf(line'.s) /\ num1' = num1)
         /\ (pc = "ReadSecondOperand" /\ pc' = "Evaluate") =>
              (num2' = ExpectedNumber(line'.s) /\ num1' = num1 /\ op' = op)
         /\ pc \in {"Evaluate", "Report"} => UNCHANGED <<num1, op, num2>>
       ]_vars
  /\ [](pc = "Report" => result = calculate(num1, op, num2))
  /\ [](pc = "AskContinue" =>
          printed = <<ResultLine(num1, op, num2, Format(calculate(num1, op, num2)))>>)

\* 3 / 4 reported as 0.75 in a session where an earlier iteration reported a
\* division by zero
C15_Witness ==
  /\ pc = "AskContinue"
  /\ hadError
  /\ num1 = Fin(3, 1, 0)
  /\ op = <<"/">>
  /\ num2 = Fin(4, 1, 0)
  /\ ShownResult(printed[1]) = <<"0",".","7","5">>

(***************************************************************************)
(* Properties of the order of the prompts (checked under Spec).            *)
(***************************************************************************)
\* the states that can follow state p of the loop
Successors(p) ==
  IF p = "Start" THEN {"ReadFirstOperand"}
  ELSE IF p = "ReadFirstOperand" THEN {"ReadFirstOperand", "ReadOperator", "Terminate", "Raised"}
  ELSE IF p = "ReadOperator" THEN {"ReadOperator", "ReadSecondOperand", "Terminate", "Raised"}
  ELSE IF p = "ReadSecondOperand" THEN {"ReadSecondOperand", "Evaluate", "Terminate", "Raised"}
  ELSE IF p = "Evaluate" THEN {"Report"}
  ELSE IF p = "Report" THEN {"AskContinue"}
  ELSE IF p = "AskContinue" THEN {"ReadFirstOperand", "Terminate", "Raised"}
  ELSE IF p = "Raised" THEN {"Terminate"}
  ELSE {"Exited"}

\* how many lines of out carry this tag
Asked(out, tag) == Count(out, {tag})

\* C16: the loop moves through ReadFirstOperand, ReadOperator,
\* ReadSecondOperand, Evaluate, Report and AskContinue in that order: a read
\* state is left for the next one only when its own prompt has been answered
\* with a value, a result line is printed only by the step from Report, which
\* is entered only from Evaluate, and the continue prompt is written only by
\* the step that follows the printing of a result line, once, after which the
\* loop starts again or ends.
C16_PromptOrder ==
  /\ [][ /\ pc' \in Successors(pc)
         /\ pc \in PromptPcs =>
              (printed'[1] = Msg(PromptOf(pc)) /\ Count(printed', Prompts) = 1)
         /\ pc \notin PromptPcs => Count(printed', Prompts) = 0
         /\ (pc = "ReadFirstOperand" /\ pc' = "ReadOperator") =>
              (line'.t = "line" /\ line'.s \in SessionNumeralLines /\ IsFloat(num1'))
         /\ (pc = "ReadOperator" /\ pc' = "ReadSecondOperand") =>
              (line'.t = "line" /\ line'.s \in SessionOperatorLines /\ op' \in valid_operators)
         /\ (pc = "ReadSecondOperand" /\ pc' = "Evaluate") =>
              (line'.t = "line" /\ line'.s \in SessionNumeralLines /\ IsFloat(num2'))
         /\ Asked(printed', "result") > 0 =>
              (pc = "Report" /\ pc' = "AskContinue" /\ Asked(printed', "result") = 1)
         /\ Asked(printed', "prompt_continue") > 0 =>
              /\ pc = "AskContinue"
              /\ Asked(printed, "result") = 1
              /\ pc' # "AskContinue"
       ]_vars
  /\ [](pc = "AskContinue" <=> Asked(printed, "result") = 1)

\* a second iteration has begun: the result line was followed by one continue
\* prompt, answered y
C16_Witness ==
  /\ pc = "ReadFirstOperand"
  /\ line = Typed(<<"y">>)
  /\ printed = <<Msg("prompt_continue")>>
  /\ result.k = "int"
  /\ IsFloat(num1) /\ IsFloat(num2) /\ op \in valid_operators

(***************************************************************************)
(* Properties of the call of calculate (checked under Spec).               *)
(***************************************************************************)
\* C17: whenever the loop is about to call calculate the operator is one of
\* + - * / and both operands are floats, never the exit sentinel, so calculate
\* takes one of its four branches and neither the result nor the printed
\* result is None; and an operand 0, first or second, is read as a number:
\* the loop goes on to the next state and nothing says goodbye.
C17_CalculateWellCalled ==
  /\ [](pc = "Evaluate" =>
          /\ op \in { <<"+">>, <<"-">>, <<"*">>, <<"/">> }
          /\ IsFloat(num1) /\ IsFloat(num2)
          /\ num1 # None /\ num2 # None
          /\ calculate(num1, op, num2) # None)
  /\ [](pc \in {"Report", "AskContinue"} => result # None)
  /\ [](pc = "AskContinue" => (printed[1].r # None /\ Len(ShownResult(printed[1])) > 0))
  /\ [][ /\ (pc = "ReadFirstOperand" /\ line' = Typed(<<"0">>)) =>
              /\ pc' = "ReadOperator"
              /\ num1' = Fin(0, 1, 0)
              /\ printed' = <<Msg("prompt_first")>>
         /\ (pc = "ReadSecondOperand" /\ line' = Typed(<<"0">>)) =>
              /\ pc' = "Evaluate"
              /\ num2' = Fin(0, 1, 0)
              /\ printed' = <<Msg("prompt_second")>>
       ]_vars

\* 0 + 0 has been evaluated and reported as 0
C17_Witness ==
  /\ pc = "AskContinue"
  /\ num1 = Fin(0, 1, 0)
  /\ op = <<"+">>
  /\ num2 = Fin(0, 1, 0)
  /\ result = [k |-> "int", n |-> 0, d |-> 1, e |-> 0]
  /\ ShownResult(printed[1]) = <<"0">>
====
